---- MODULE Spec2Model ----
(***************************************************************************)
(* Business Ops MCP server (ai-business-mcp-python/mcp_server.py).         *)
(*                                                                         *)
(* The model has three layers:                                             *)
(*   1. Python values and the JSON codec (json.dumps / json.loads) that    *)
(*      both transports use on the wire;                                   *)
(*   2. the five tool executors, load_data and handle_tool_call, as        *)
(*      operators over the contents of the three data files;               *)
(*   3. the two transports as a state machine: POST /tools/{tool_name}     *)
(*      and the /ws endpoint, one coroutine per connection, interleaved    *)
(*      at its await points by the single-threaded event loop.             *)
(***************************************************************************)
EXTENDS Integers, Sequences, FiniteSets, TLC

(***************************************************************************)
(* Python values.  Every value is a pair <<type, payload>>, so that values *)
(* of different Python types can be compared.  A str is a sequence of      *)
(* atoms:                                                                  *)
(* an atom is one character that matters to JSON (quote, backslash,        *)
(* newline, a digit, punctuation), one non-ASCII character, or a run of    *)
(* plain ASCII characters.  A dict is the sequence of its (key, value)     *)
(* pairs in insertion order, keys unique.  A float is m / FloatScale (the  *)
(* model's floats have three decimal digits where a double has 53 bits).   *)
(***************************************************************************)
PyNone == <<"none", <<>>>>
PyBool(b) == <<"bool", b>>
PyInt(n) == <<"int", n>>
PyFloat(m) == <<"float", m>>
PyStr(atoms) == <<"str", atoms>>
PyList(items) == <<"list", items>>
PyDict(pairs) == <<"dict", pairs>>

Str(a) == PyStr(<<a>>)
EmptyStr == PyStr(<<>>)

FloatScale == 10 * 10 * 10

IsDict(x) == x[1] = "dict"
IsStr(x) == x[1] = "str"

\* key in d
HasKey(d, key) == \E i \in 1..Len(d[2]) : d[2][i][1] = key

\* d[key], for a key that is present
Item(d, key) == d[2][CHOOSE i \in 1..Len(d[2]) : d[2][i][1] = key][2]

\* d.get(key, default)
DictGet(d, key, default) == IF HasKey(d, key) THEN Item(d, key) ELSE default

\* d[key] = val: a present key keeps its place, a new key goes last
DictSet(d, key, val) ==
    IF HasKey(d, key)
    THEN PyDict([i \in 1..Len(d[2]) |->
                    IF d[2][i][1] = key THEN <<key, val>> ELSE d[2][i]])
    ELSE PyDict(Append(d[2], <<key, val>>))

Keys(d) == [i \in 1..Len(d[2]) |-> d[2][i][1]]

\* x is not None: the test of an optional argument that counts an empty
\* string as given
IsNotNone(x) == x # PyNone

\* bool(x), for the values the handlers test
Truthy(x) ==
    CASE x[1] = "none" -> FALSE
      [] x[1] = "bool" -> x[2]
      [] x[1] = "int" -> x[2] # 0
      [] x[1] = "float" -> x[2] # 0
      [] OTHER -> Len(x[2]) > 0

\* the name of type(x), as it appears in an AttributeError message
TypeName(x) ==
    CASE x[1] = "none" -> "NoneType"
      [] x[1] = "bool" -> "bool"
      [] x[1] = "int" -> "int"
      [] x[1] = "float" -> "float"
      [] x[1] = "str" -> "str"
      [] x[1] = "list" -> "list"
      [] OTHER -> "dict"

RECURSIVE SumSeq(_)
SumSeq(s) == IF s = <<>> THEN 0 ELSE Head(s) + SumSeq(Tail(s))

\* the concatenation of the sequences ss[lo..hi], halving the range
RECURSIVE ConcatRange(_, _, _)
ConcatRange(ss, lo, hi) ==
    IF lo > hi THEN <<>>
    ELSE IF lo = hi THEN ss[lo]
    ELSE LET mid == (lo + hi) \div 2
         IN  ConcatRange(ss, lo, mid) \o ConcatRange(ss, mid + 1, hi)

Concat(ss) == ConcatRange(ss, 1, Len(ss))

(***************************************************************************)
(* Formatting of numbers.                                                  *)
(***************************************************************************)
DigitAtoms == <<"0", "1", "2", "3", "4", "5", "6", "7", "8", "9">>
IsDigit(a) == \E d \in 1..10 : DigitAtoms[d] = a
DigitValue(a) == (CHOOSE d \in 1..10 : DigitAtoms[d] = a) - 1

\* str(n) for n >= 0
RECURSIVE NatDigits(_)
NatDigits(n) ==
    IF n < 10 THEN <<DigitAtoms[n + 1]>>
    ELSE Append(NatDigits(n \div 10), DigitAtoms[(n % 10) + 1])

\* int.__repr__
IntRepr(n) == IF n < 0 THEN <<"-">> \o NatDigits(0 - n) ELSE NatDigits(n)

\* the last n digits of m, zero-padded
RECURSIVE PadDigits(_, _)
PadDigits(m, n) ==
    IF n = 0 THEN <<>>
    ELSE Append(PadDigits(m \div 10, n - 1), DigitAtoms[(m % 10) + 1])

\* trailing zeros of a fraction dropped, one digit kept
RECURSIVE TrimZeros(_)
TrimZeros(ds) ==
    IF Len(ds) > 1 /\ ds[Len(ds)] = "0"
    THEN TrimZeros(SubSeq(ds, 1, Len(ds) - 1))
    ELSE ds

\* float.__repr__ of m / FloatScale: 0.5, 1.0, 333.333
FloatRepr(m) ==
    LET a == IF m < 0 THEN 0 - m ELSE m
    IN  (IF m < 0 THEN <<"-">> ELSE <<>>)
        \o NatDigits(a \div FloatScale) \o <<".">>
        \o TrimZeros(PadDigits(a % FloatScale, 3))

\* a // b: the floor division, an int
FloorDiv(a, b) == PyInt(a \div b)

\* a / b of two ints (true division), rounded to the model's precision
TrueDiv(a, b) == PyFloat((2 * a * FloatScale + b) \div (2 * b))

\* format(n, ","): thousands separators
RECURSIVE CommaNat(_)
CommaNat(n) ==
    IF n < 1000 THEN NatDigits(n)
    ELSE CommaNat(n \div 1000) \o <<",">> \o PadDigits(n % 1000, 3)

FormatComma(x) ==
    IF x[1] = "int" THEN CommaNat(x[2])
    ELSE CommaNat(x[2] \div FloatScale) \o <<".">>
         \o TrimZeros(PadDigits(x[2] % FloatScale, 3))

\* format(x, ".1%"): x * 100 with one decimal, then a percent sign
FormatPercent(x) ==
    LET tenths == IF x[1] = "int" THEN x[2] * 1000
                  ELSE (2 * x[2] * 1000 + FloatScale) \div (2 * FloatScale)
    IN  NatDigits(tenths \div 10) \o <<".", DigitAtoms[(tenths % 10) + 1], "%">>

(***************************************************************************)
(* json.dumps.  opt.indent = 0 stands for indent=None.                     *)
(***************************************************************************)
\* The non-ASCII characters of the summaries (check mark, bar chart, trophy,
\* envelope, chart, office building), each atom named by its code point.
NonAscii == {"U+2705", "U+1F4CA", "U+1F3C6", "U+1F4E9", "U+1F4C8", "U+1F3E2"}

\* The UTF-16 code units of a non-ASCII character, in hexadecimal.
CodeUnits(a) ==
    CASE a = "U+2705" -> <<"2705">>
      [] a = "U+1F4CA" -> <<"d83d", "dcca">>
      [] a = "U+1F3C6" -> <<"d83c", "dfc6">>
      [] a = "U+1F4E9" -> <<"d83d", "dce9">>
      [] a = "U+1F4C8" -> <<"d83d", "dcc8">>
      [] OTHER -> <<"d83c", "dfe2">>

\* an encoder that replaces a non-ASCII character by a question mark
ReplaceNonAscii(a) == <<"?">>

\* the \uXXXX escapes of a non-ASCII character
UnicodeEscape(a) ==
    Concat([i \in 1..Len(CodeUnits(a)) |-> <<"\\", "u", CodeUnits(a)[i]>>])

\* json.dumps(obj): the defaults
DumpsDefault == [indent |-> 0, itemsep |-> <<",", " ">>, keysep |-> <<":", " ">>,
                 ascii |-> TRUE]
\* json.dumps(obj, indent=2)
DumpsIndent2 == [indent |-> 2, itemsep |-> <<",">>, keysep |-> <<":", " ">>,
                 ascii |-> TRUE]

EscapeAtom(a, ascii) ==
    CASE a = "\"" -> <<"\\", "\"">>
      [] a = "\\" -> <<"\\", "\\">>
      [] a = "\n" -> <<"\\", "n">>
      [] a \in NonAscii /\ ascii -> UnicodeEscape(a)
      [] OTHER -> <<a>>

EncodeStr(atoms, ascii) ==
    <<"\"">> \o Concat([i \in 1..Len(atoms) |-> EscapeAtom(atoms[i], ascii)])
    \o <<"\"">>

\* runs of 2, 4, 6 and 8 spaces, one atom each
Indentation == <<"  ", "    ", "      ", "        ">>

\* the newline and indentation before an item at nesting depth level
Newline(opt, level) ==
    IF opt.indent = 0 THEN <<>>
    ELSE IF level = 0 THEN <<"\n">>
    ELSE <<"\n", Indentation[(opt.indent * level) \div 2]>>

\* a dict key as json.dumps writes it: str as is, the scalars coerced
KeyAtoms(key) ==
    CASE key[1] = "str" -> key[2]
      [] key[1] = "int" -> IntRepr(key[2])
      [] key[1] = "float" -> FloatRepr(key[2])
      [] key[1] = "bool" -> IF key[2] THEN <<"true">> ELSE <<"false">>
      [] OTHER -> <<"null">>

RECURSIVE Encode(_, _, _)
EncodeItems(items, opt, level) ==
    Concat([i \in 1..Len(items) |->
        (IF i = 1 THEN <<>> ELSE opt.itemsep)
        \o Newline(opt, level) \o Encode(items[i], opt, level)])

EncodePairs(pairs, opt, level) ==
    Concat([i \in 1..Len(pairs) |->
        (IF i = 1 THEN <<>> ELSE opt.itemsep)
        \o Newline(opt, level)
        \o EncodeStr(KeyAtoms(pairs[i][1]), opt.ascii) \o opt.keysep
        \o Encode(pairs[i][2], opt, level)])

Encode(x, opt, level) ==
    CASE x[1] = "none" -> <<"null">>
      [] x[1] = "bool" -> IF x[2] THEN <<"true">> ELSE <<"false">>
      [] x[1] = "int" -> IntRepr(x[2])
      [] x[1] = "float" -> FloatRepr(x[2])
      [] x[1] = "str" -> EncodeStr(x[2], opt.ascii)
      [] x[1] = "list" ->
            IF x[2] = <<>> THEN <<"[", "]">>
            ELSE <<"[">> \o EncodeItems(x[2], opt, level + 1)
                 \o Newline(opt, level) \o <<"]">>
      [] OTHER ->
            IF x[2] = <<>> THEN <<"{", "}">>
            ELSE <<"{">> \o EncodePairs(x[2], opt, level + 1)
                 \o Newline(opt, level) \o <<"}">>

json_dumps(x, opt) == Encode(x, opt, 0)

(***************************************************************************)
(* json.loads: a recursive-descent parser over the atoms of a text.  A     *)
(* parse step returns [ok, val, pos]: the value read and the index of the  *)
(* first atom after it; ok = FALSE is json.JSONDecodeError.                *)
(***************************************************************************)
\* the single element of a set: Only({F(x) : x \in {e}}) is F(e) with e
\* evaluated once
Only(S) == CHOOSE x \in S : TRUE

ParseFail == [ok |-> FALSE, val |-> PyNone, pos |-> 0]
Parsed(val, pos) == [ok |-> TRUE, val |-> val, pos |-> pos]

IsWs(a) == a \in {" ", "\n", "\t", "\r"} \/ \E i \in 1..Len(Indentation) : Indentation[i] = a

RECURSIVE SkipWs(_, _)
SkipWs(t, i) == IF i <= Len(t) /\ IsWs(t[i]) THEN SkipWs(t, i + 1) ELSE i

RECURSIVE Pow10(_)
Pow10(n) == IF n = 0 THEN 1 ELSE 10 * Pow10(n - 1)

\* the digits from t[i] on: their value n, their count cnt, the index after them
RECURSIVE ParseDigits(_, _, _, _)
ParseDigits(t, i, n, cnt) ==
    IF i <= Len(t) /\ IsDigit(t[i])
    THEN ParseDigits(t, i + 1, 10 * n + DigitValue(t[i]), cnt + 1)
    ELSE [n |-> n, cnt |-> cnt, pos |-> i]

ParseNumber(t, i) ==
    LET neg == t[i] = "-"
        sign == IF neg THEN 0 - 1 ELSE 1
        Fraction(ip, fp) ==
            LET frac == IF fp.cnt <= 3 THEN fp.n * Pow10(3 - fp.cnt)
                        ELSE fp.n \div Pow10(fp.cnt - 3)
            IN  IF fp.cnt = 0 THEN ParseFail
                ELSE Parsed(PyFloat(sign * (ip.n * FloatScale + frac)), fp.pos)
        Number(ip) ==
            IF ip.cnt = 0 THEN ParseFail
            ELSE IF ip.pos <= Len(t) /\ t[ip.pos] = "."
            THEN Only({Fraction(ip, fp) : fp \in {ParseDigits(t, ip.pos + 1, 0, 0)}})
            ELSE Parsed(PyInt(sign * ip.n), ip.pos)
    IN  Only({Number(ip) : ip \in {ParseDigits(t, IF neg THEN i + 1 ELSE i, 0, 0)}})

(* A string literal is decoded by position, without recursion over its      *)
(* length: a backslash starts an escape iff an even number of backslashes  *)
(* precedes it.                                                            *)

\* the number of consecutive backslashes ending at t[j], not before t[lo]
RECURSIVE BackslashRun(_, _, _)
BackslashRun(t, lo, j) ==
    IF j >= lo /\ t[j] = "\\" THEN 1 + BackslashRun(t, lo, j - 1) ELSE 0

\* t[j] is not inside an escape that starts before it
Unescaped(t, lo, j) == BackslashRun(t, lo, j - 1) % 2 = 0

EscapeStart(t, lo, j) == j >= lo /\ t[j] = "\\" /\ Unescaped(t, lo, j)

\* the index of the closing quote of the literal whose body starts at t[i],
\* searched in blocks of 16 atoms; 0 if there is none
RECURSIVE ClosingQuote(_, _, _)
ClosingQuote(t, lo, i) ==
    LET Block(hi) ==
            LET found == {j \in i..hi : t[j] = "\"" /\ Unescaped(t, lo, j)}
            IN  IF found # {} THEN CHOOSE j \in found : \A j2 \in found : j <= j2
                ELSE ClosingQuote(t, lo, hi + 1)
    IN  IF i > Len(t) THEN 0
        ELSE Only({Block(hi) : hi \in {IF i + 15 < Len(t) THEN i + 15 ELSE Len(t)}})

\* the non-ASCII characters a \uXXXX escape at t[j] may start: alone, or as
\* the high half of a surrogate pair
EscapeAlone(t, hi, j) ==
    {a \in NonAscii : j + 2 <= hi /\ SubSeq(t, j, j + 2) = UnicodeEscape(a)}
EscapePair(t, hi, j) ==
    {a \in NonAscii : j + 5 <= hi /\ SubSeq(t, j, j + 5) = UnicodeEscape(a)}

\* what the atom t[j] of a literal body t[lo..hi] contributes to the str:
\* <<"<invalid>">> marks an invalid literal
BodyAtom(t, lo, hi, j) ==
    IF EscapeStart(t, lo, j)
    THEN IF j + 1 > hi THEN <<"<invalid>">>
         ELSE IF t[j + 1] = "\"" THEN <<"\"">>
         ELSE IF t[j + 1] = "\\" THEN <<"\\">>
         ELSE IF t[j + 1] = "n" THEN <<"\n">>
         ELSE IF t[j + 1] = "u"
         THEN IF EscapeAlone(t, hi, j) # {} THEN <<CHOOSE a \in EscapeAlone(t, hi, j) : TRUE>>
              ELSE IF EscapePair(t, hi, j) # {}
              THEN <<CHOOSE a \in EscapePair(t, hi, j) : TRUE>>
              ELSE IF j - 3 >= lo /\ EscapeStart(t, lo, j - 3)
                      /\ EscapePair(t, hi, j - 3) # {} THEN <<>>
              ELSE <<"<invalid>">>
         ELSE <<"<invalid>">>
    ELSE IF EscapeStart(t, lo, j - 1) THEN <<>>
    ELSE IF j - 2 >= lo /\ t[j - 1] = "u" /\ EscapeStart(t, lo, j - 2) THEN <<>>
    ELSE IF t[j] = "\n" THEN <<"<invalid>">>
    ELSE <<t[j]>>

\* the string literal whose body starts at t[i], after the opening quote
ParseString(t, i) ==
    LET Body(close, parts) ==
            IF \E n \in DOMAIN parts : parts[n] = <<"<invalid>">> THEN ParseFail
            ELSE Parsed(PyStr(Concat(parts)), close + 1)
        Literal(close) ==
            IF close = 0 THEN ParseFail
            ELSE Only({Body(close, parts) :
                       parts \in {[n \in 1..(close - i) |->
                                      BodyAtom(t, i, close - 1, i + n - 1)]}})
    IN  Only({Literal(close) : close \in {ClosingQuote(t, i, i)}})

RECURSIVE ParseValue(_, _)
RECURSIVE ParseItems(_, _, _)
RECURSIVE ParseMembers(_, _, _)

\* one item of an array and the white space after it
ItemAt(t, i) ==
    LET item == ParseValue(t, i)
        j == SkipWs(t, item.pos)
    IN  IF ~item.ok \/ j > Len(t) THEN ParseFail ELSE Parsed(item.val, j)

\* the items of an array, from the atom before the next item
ParseItems(t, i, acc) ==
    LET After(item) ==
            IF ~item.ok THEN ParseFail
            ELSE IF t[item.pos] = "," THEN ParseItems(t, item.pos + 1, Append(acc, item.val))
            ELSE IF t[item.pos] = "]" THEN Parsed(PyList(Append(acc, item.val)), item.pos + 1)
            ELSE ParseFail
    IN  Only({After(item) : item \in {ItemAt(t, i)}})

\* one member of an object and the white space after it: val is <<key, value>>
MemberAt(t, i) ==
    LET q == SkipWs(t, i)
        key == IF q <= Len(t) /\ t[q] = "\"" THEN ParseString(t, q + 1) ELSE ParseFail
        c == SkipWs(t, key.pos)
        val == IF key.ok /\ c <= Len(t) /\ t[c] = ":" THEN ParseValue(t, c + 1)
               ELSE ParseFail
        j == SkipWs(t, val.pos)
    IN  IF ~val.ok \/ j > Len(t) THEN ParseFail ELSE Parsed(<<key.val, val.val>>, j)

\* the members of an object; a repeated key keeps its place and takes the
\* later value
ParseMembers(t, i, acc) ==
    LET After(m) ==
            IF ~m.ok THEN ParseFail
            ELSE IF t[m.pos] = ","
            THEN ParseMembers(t, m.pos + 1, DictSet(acc, m.val[1], m.val[2]))
            ELSE IF t[m.pos] = "}" THEN Parsed(DictSet(acc, m.val[1], m.val[2]), m.pos + 1)
            ELSE ParseFail
    IN  Only({After(m) : m \in {MemberAt(t, i)}})

ParseValue(t, i) ==
    LET j == SkipWs(t, i)
        e == SkipWs(t, j + 1)
    IN  IF j > Len(t) THEN ParseFail
        ELSE IF t[j] = "{"
        THEN IF e <= Len(t) /\ t[e] = "}" THEN Parsed(PyDict(<<>>), e + 1)
             ELSE ParseMembers(t, j + 1, PyDict(<<>>))
        ELSE IF t[j] = "["
        THEN IF e <= Len(t) /\ t[e] = "]" THEN Parsed(PyList(<<>>), e + 1)
             ELSE ParseItems(t, j + 1, <<>>)
        ELSE IF t[j] = "\"" THEN ParseString(t, j + 1)
        ELSE IF t[j] = "null" THEN Parsed(PyNone, j + 1)
        ELSE IF t[j] = "true" THEN Parsed(PyBool(TRUE), j + 1)
        ELSE IF t[j] = "false" THEN Parsed(PyBool(FALSE), j + 1)
        ELSE IF t[j] = "-" \/ IsDigit(t[j]) THEN ParseNumber(t, j)
        ELSE ParseFail

\* json.loads(text): [ok, val]; the whole text must be one value
json_loads(t) ==
    LET Whole(r) ==
            IF r.ok /\ SkipWs(t, r.pos) > Len(t)
            THEN [ok |-> TRUE, val |-> r.val]
            ELSE [ok |-> FALSE, val |-> PyNone]
    IN  Only({Whole(r) : r \in {ParseValue(t, 1)}})

(***************************************************************************)
(* str(x) and repr(x), as f-strings and str(e) use them.                   *)
(***************************************************************************)
RECURSIVE PyRepr(_)
PyRepr(x) ==
    CASE x[1] = "none" -> <<"None">>
      [] x[1] = "bool" -> IF x[2] THEN <<"True">> ELSE <<"False">>
      [] x[1] = "int" -> IntRepr(x[2])
      [] x[1] = "float" -> FloatRepr(x[2])
      [] x[1] = "str" -> <<"'">> \o x[2] \o <<"'">>
      [] x[1] = "list" ->
            <<"[">> \o Concat([i \in 1..Len(x[2]) |->
                (IF i = 1 THEN <<>> ELSE <<", ">>) \o PyRepr(x[2][i])]) \o <<"]">>
      [] OTHER ->
            <<"{">> \o Concat([i \in 1..Len(x[2]) |->
                (IF i = 1 THEN <<>> ELSE <<", ">>)
                \o PyRepr(x[2][i][1]) \o <<": ">> \o PyRepr(x[2][i][2])]) \o <<"}">>

PyFormat(x) == IF x[1] = "str" THEN x[2] ELSE PyRepr(x)

\* sep.join(parts), parts a sequence of atom sequences
Join(sep, parts) ==
    Concat([i \in 1..Len(parts) |-> (IF i = 1 THEN <<>> ELSE <<sep>>) \o parts[i]])

(***************************************************************************)
(* Outcomes of a call: it returns a value or raises an exception.          *)
(***************************************************************************)
Return(val) == <<"return", val>>
Raise(class, message) == <<"raise", <<class, message>>>>
Returned(o) == o[1] = "return"
Raised(o) == o[1] = "raise"

\* the classes `except Exception` catches; KeyboardInterrupt, SystemExit and
\* asyncio.CancelledError derive from BaseException and are not among them
ExceptionClasses == {"KeyError", "AttributeError", "TypeError", "ZeroDivisionError",
                     "JSONDecodeError", "RuntimeError", "WebSocketDisconnect"}

\* a KeyError whose message is the bare key, without the quotes of repr
KeyErrorBare(key) == Raise("KeyError", <<key>>)

\* d[key] of a missing key: str(KeyError(key)) is repr(key)
KeyError(key) == Raise("KeyError", PyRepr(Str(key)))

\* x.get of a value that is no dict
NoGetAttribute(x) ==
    Raise("AttributeError", <<"'", TypeName(x), "' object has no attribute 'get'">>)

\* some record of recs has no field key
Lacks(recs, key) == \E i \in 1..Len(recs) : ~HasKey(recs[i], Str(key))

Field(rec, key) == Item(rec, Str(key))

\* the records whose field key equals / differs from val
Where(recs, key, val) == SelectSeq(recs, LAMBDA r : Field(r, key) = val)
\* a filter that keeps every record
KeepAll(recs, key, val) == recs

WhereNot(recs, key, val) == SelectSeq(recs, LAMBDA r : Field(r, key) # val)

\* the number of the records, where their sum is meant
CountOf(recs, key) == Len(recs)

\* sum(r[key] for r in recs), of int fields
SumOf(recs, key) == SumSeq([i \in 1..Len(recs) |-> Field(recs[i], key)[2]])

\* the frequency table a loop `t[r[key]] = t.get(r[key], 0) + 1` builds
RECURSIVE CountBy(_, _, _)
CountBy(recs, key, table) ==
    IF recs = <<>> THEN table
    ELSE LET v == Field(Head(recs), key)
         IN  CountBy(Tail(recs), key,
                     DictSet(table, v, PyInt(DictGet(table, v, PyInt(0))[2] + 1)))

(***************************************************************************)
(* The data files.  A file is absent, or holds text that is no JSON, or    *)
(* holds the JSON of a value; disk maps the three file names to contents.  *)
(***************************************************************************)
FileAbsent == <<"absent", PyNone>>
FileGarbage == <<"garbage", PyNone>>
FileJson(val) == <<"json", val>>

FileNames == {"sales.json", "hr.json", "support.json"}

\* load_data: the parsed content, and [] on any exception of open or json.load
load_data(files, file_name) ==
    IF files[file_name][1] = "json" THEN files[file_name][2] ELSE PyList(<<>>)

(***************************************************************************)
(* The five executors.  Each returns Return(dict) or the first exception   *)
(* its statements raise, in the order the code evaluates them.             *)
(***************************************************************************)
get_revenue_summary(files) ==
    LET sales_data == load_data(files, "sales.json")[2]
        closed_won == Where(sales_data, "status", Str("Closed Won"))
        in_progress == Where(sales_data, "status", Str("In Progress"))
        lost == Where(sales_data, "status", Str("Lost"))
        total_revenue == PyInt(SumOf(closed_won, "amount"))
        potential_revenue == PyInt(SumOf(in_progress, "amount"))
        win_rate == IF sales_data # <<>>
                    THEN TrueDiv(Len(closed_won), Len(sales_data))
                    ELSE PyInt(0)
    IN  IF Lacks(sales_data, "status") THEN KeyError("status")
        ELSE IF Lacks(closed_won, "amount") \/ Lacks(in_progress, "amount")
        THEN KeyError("amount")
        ELSE Return(PyDict(<<
            <<Str("total_closed_revenue"), total_revenue>>,
            <<Str("potential_revenue"), potential_revenue>>,
            <<Str("closed_deals"), PyInt(Len(closed_won))>>,
            <<Str("deals_in_progress"), PyInt(Len(in_progress))>>,
            <<Str("lost_deals"), PyInt(Len(lost))>>,
            <<Str("win_rate"), win_rate>>,
            <<Str("summary"), PyStr(
                <<"U+2705", " Total Closed Revenue: $">> \o FormatComma(total_revenue)
                \o <<" | ", "U+1F4CA", " ">> \o NatDigits(Len(closed_won))
                \o <<" closed deals (">> \o FormatPercent(win_rate)
                \o <<" win rate)">>)>> >>))

\* the first key of keys that the first incomplete record of recs lacks
FirstMissing(recs, keys) ==
    LET bad == {i \in 1..Len(recs) : \E j \in 1..Len(keys) : ~HasKey(recs[i], Str(keys[j]))}
        i0 == CHOOSE i \in bad : \A i2 \in bad : i <= i2
        j0 == CHOOSE j \in 1..Len(keys) :
                /\ ~HasKey(recs[i0], Str(keys[j]))
                /\ \A j2 \in 1..(j - 1) : HasKey(recs[i0], Str(keys[j2]))
    IN  IF bad = {} THEN "" ELSE keys[j0]

get_top_performers(files, department) ==
    LET hr_data == load_data(files, "hr.json")[2]
        excellent == Where(hr_data, "performance", Str("Excellent"))
        performers == IF Truthy(department)
                      THEN Where(excellent, "department", department)
                      ELSE excellent
        missing == FirstMissing(performers, <<"name", "department", "salary", "performance">>)
        performer_list == [i \in 1..Len(performers) |-> PyDict(<<
            <<Str("name"), Field(performers[i], "name")>>,
            <<Str("department"), Field(performers[i], "department")>>,
            <<Str("salary"), Field(performers[i], "salary")>>,
            <<Str("performance"), Field(performers[i], "performance")>> >>)]
        summary ==
            IF Truthy(department)
            THEN <<"U+1F3C6", " Top performers in ">> \o PyFormat(department) \o <<": ">>
                 \o Join(", ", [i \in 1..Len(performers) |-> Field(performers[i], "name")[2]])
            ELSE <<"U+1F3C6", " Top performers across company: ">>
                 \o Join(", ", [i \in 1..Len(performers) |->
                        PyFormat(Field(performers[i], "name")) \o <<" (">>
                        \o PyFormat(Field(performers[i], "department")) \o <<")">>])
    IN  IF Lacks(hr_data, "performance") THEN KeyError("performance")
        ELSE IF Truthy(department) /\ Lacks(excellent, "department")
        THEN KeyError("department")
        ELSE IF missing # "" THEN KeyError(missing)
        ELSE Return(PyDict(<<
            <<Str("top_performers"), PyList(performer_list)>>,
            <<Str("count"), PyInt(Len(performers))>>,
            <<Str("summary"), PyStr(summary)>> >>))

get_open_tickets(files) ==
    LET tickets_data == load_data(files, "support.json")[2]
        open_tickets == WhereNot(tickets_data, "status", Str("Resolved"))
        by_status == CountBy(open_tickets, "status", PyDict(<<>>))
        by_priority == CountBy(open_tickets, "priority", PyDict(<<>>))
        status_summary == Join(", ", [i \in 1..Len(by_status[2]) |->
            PyFormat(by_status[2][i][1]) \o <<": ">> \o PyFormat(by_status[2][i][2])])
    IN  IF Lacks(tickets_data, "status") THEN KeyError("status")
        ELSE IF Lacks(open_tickets, "priority") THEN KeyError("priority")
        ELSE Return(PyDict(<<
            <<Str("open_tickets_count"), PyInt(Len(open_tickets))>>,
            <<Str("tickets_by_status"), by_status>>,
            <<Str("tickets_by_priority"), by_priority>>,
            <<Str("open_tickets"), PyList(open_tickets)>>,
            <<Str("summary"), PyStr(
                <<"U+1F4E9", " There are ">> \o NatDigits(Len(open_tickets))
                \o <<" unresolved tickets (">> \o status_summary \o <<")">>)>> >>))

analyze_sales_performance(files, region) ==
    LET sales_data == load_data(files, "sales.json")[2]
        filtered_sales == IF Truthy(region) THEN Where(sales_data, "region", region)
                          ELSE sales_data
        by_status == CountBy(filtered_sales, "status", PyDict(<<>>))
        total_amount == PyInt(SumOf(filtered_sales, "amount"))
        closed_amount ==
            PyInt(SumOf(Where(filtered_sales, "status", Str("Closed Won")), "amount"))
        avg_deal_size == IF filtered_sales # <<>>
                         THEN TrueDiv(total_amount[2], Len(filtered_sales))
                         ELSE PyInt(0)
        totals == NatDigits(Len(filtered_sales)) \o <<" deals totaling $">>
                  \o FormatComma(total_amount) \o <<" ($">> \o FormatComma(closed_amount)
                  \o <<" closed)">>
        summary == IF Truthy(region)
                   THEN <<"U+1F4C8", " Sales in ">> \o PyFormat(region) \o <<": ">> \o totals
                   ELSE <<"U+1F4C8", " Global Sales: ">> \o totals
    IN  IF Truthy(region) /\ Lacks(sales_data, "region") THEN KeyError("region")
        ELSE IF Lacks(filtered_sales, "status") THEN KeyError("status")
        ELSE IF Lacks(filtered_sales, "amount") THEN KeyError("amount")
        ELSE Return(PyDict(<<
            <<Str("region"), IF Truthy(region) THEN region ELSE Str("All Regions")>>,
            <<Str("total_deals"), PyInt(Len(filtered_sales))>>,
            <<Str("total_amount"), total_amount>>,
            <<Str("closed_amount"), closed_amount>>,
            <<Str("deals_by_status"), by_status>>,
            <<Str("average_deal_size"), avg_deal_size>>,
            <<Str("summary"), PyStr(summary)>> >>))

\* the exception of sum(s["amount"] for s in recs if s["status"] == "Closed Won"):
\* the generator reads status, then amount, record by record
RECURSIVE ClosedAmountFault(_)
ClosedAmountFault(recs) ==
    IF recs = <<>> THEN ""
    ELSE IF ~HasKey(Head(recs), Str("status")) THEN "status"
    ELSE IF Field(Head(recs), "status") = Str("Closed Won")
            /\ ~HasKey(Head(recs), Str("amount")) THEN "amount"
    ELSE ClosedAmountFault(Tail(recs))

\* a breakdown that forgets the last department
DepartmentsButLast == <<"Engineering", "Sales", "Marketing">>

Departments == <<"Engineering", "Sales", "Marketing", "Support">>

get_business_overview(files) ==
    LET sales_data == load_data(files, "sales.json")[2]
        hr_data == load_data(files, "hr.json")[2]
        support_data == load_data(files, "support.json")[2]
        total_revenue ==
            PyInt(SumOf(Where(sales_data, "status", Str("Closed Won")), "amount"))
        total_employees == Len(hr_data)
        open_tickets == Len(WhereNot(support_data, "status", Str("Resolved")))
        top_performers == Len(Where(hr_data, "performance", Str("Excellent")))
        departments == PyDict([i \in 1..Len(Departments) |->
            <<Str(Departments[i]),
              PyInt(Len(Where(hr_data, "department", Str(Departments[i]))))>>])
    IN  IF ClosedAmountFault(sales_data) # "" THEN KeyError(ClosedAmountFault(sales_data))
        ELSE IF Lacks(support_data, "status") THEN KeyError("status")
        ELSE IF Lacks(hr_data, "performance") THEN KeyError("performance")
        ELSE IF Lacks(hr_data, "department") THEN KeyError("department")
        ELSE Return(PyDict(<<
            <<Str("business_health"), PyDict(<<
                <<Str("revenue"), total_revenue>>,
                <<Str("employees"), PyInt(total_employees)>>,
                <<Str("open_tickets"), PyInt(open_tickets)>>,
                <<Str("top_performers"), PyInt(top_performers)>>,
                <<Str("customer_satisfaction"), Str("High")>> >>)>>,
            <<Str("departments"), departments>>,
            <<Str("summary"), PyStr(
                <<"U+1F3E2", " Business Overview: $">> \o FormatComma(total_revenue)
                \o <<" revenue, ">> \o NatDigits(total_employees)
                \o <<" employees, ">> \o NatDigits(open_tickets)
                \o <<" open tickets, ">> \o NatDigits(top_performers)
                \o <<" top performers">>)>> >>))

(***************************************************************************)
(* get_available_tools and handle_tool_call.                               *)
(***************************************************************************)
ToolNames == <<"get_revenue_summary", "get_top_performers", "get_open_tickets",
               "analyze_sales_performance", "get_business_overview">>

ErrorDict(message) == PyDict(<< <<Str("error"), PyStr(message)>> >>)

\* an if/elif chain that matches get_revenue_summary by prefix
DispatchByPrefix(files, tool_name, arguments) ==
    IF IsStr(tool_name) /\ Len(tool_name[2]) > 0
       /\ tool_name[2][1] \in {"get_revenue_summary", "get_revenue"}
    THEN get_revenue_summary(files)
    ELSE Return(ErrorDict(<<"Unknown tool: ">> \o PyFormat(tool_name)))

\* the body of the try block: the if/elif chain over tool_name
Dispatch(files, tool_name, arguments) ==
    IF tool_name = Str("get_revenue_summary") THEN get_revenue_summary(files)
    ELSE IF tool_name = Str("get_top_performers")
    THEN IF ~IsDict(arguments) THEN NoGetAttribute(arguments)
         ELSE get_top_performers(files, DictGet(arguments, Str("department"), PyNone))
    ELSE IF tool_name = Str("get_open_tickets") THEN get_open_tickets(files)
    ELSE IF tool_name = Str("analyze_sales_performance")
    THEN IF ~IsDict(arguments) THEN NoGetAttribute(arguments)
         ELSE analyze_sales_performance(files, DictGet(arguments, Str("region"), PyNone))
    ELSE IF tool_name = Str("get_business_overview") THEN get_business_overview(files)
    ELSE Return(ErrorDict(<<"Unknown tool: ">> \o PyFormat(tool_name)))

\* an except clause that names KeyError alone
CatchKeyError(o) ==
    IF Raised(o) /\ o[2][1] = "KeyError" THEN Return(ErrorDict(o[2][2])) ELSE o

\* except Exception as e: return {"error": str(e)}
CatchException(o) ==
    IF Raised(o) /\ o[2][1] \in ExceptionClasses THEN Return(ErrorDict(o[2][2])) ELSE o

handle_tool_call(files, tool_name, arguments) ==
    CatchException(Dispatch(files, tool_name, arguments))

\* one tool descriptor of get_available_tools
ToolDescriptor(name, description, properties) ==
    PyDict(<<
        <<Str("name"), Str(name)>>,
        <<Str("description"), Str(description)>>,
        <<Str("inputSchema"), PyDict(<<
            <<Str("type"), Str("object")>>,
            <<Str("properties"), PyDict(properties)>> >>)>> >>)

\* an optional string parameter with its allowed values
EnumProperty(name, description, values) ==
    <<Str(name), PyDict(<<
        <<Str("type"), Str("string")>>,
        <<Str("description"), Str(description)>>,
        <<Str("enum"), PyList([i \in 1..Len(values) |-> Str(values[i])])>> >>)>>

\* a catalogue that advertises get_business_overview under another name
get_available_tools_renamed ==
    PyList(<<
        ToolDescriptor("get_revenue_summary",
            "Get total revenue summary from closed sales", <<>>),
        ToolDescriptor("get_top_performers", "Get top performing employees",
            <<EnumProperty("department", "Filter by department (optional)",
                           <<"Engineering", "Sales", "Marketing", "Support">>)>>),
        ToolDescriptor("get_open_tickets",
            "Get count and details of open support tickets", <<>>),
        ToolDescriptor("analyze_sales_performance",
            "Analyze sales performance by region and status",
            <<EnumProperty("region", "Filter by region (optional)",
                           <<"North America", "Europe", "Asia">>)>>),
        ToolDescriptor("business_overview",
            "Get comprehensive business overview across all departments", <<>>) >>)

get_available_tools ==
    PyList(<<
        ToolDescriptor("get_revenue_summary",
            "Get total revenue summary from closed sales", <<>>),
        ToolDescriptor("get_top_performers", "Get top performing employees",
            <<EnumProperty("department", "Filter by department (optional)",
                           <<"Engineering", "Sales", "Marketing", "Support">>)>>),
        ToolDescriptor("get_open_tickets",
            "Get count and details of open support tickets", <<>>),
        ToolDescriptor("analyze_sales_performance",
            "Analyze sales performance by region and status",
            <<EnumProperty("region", "Filter by region (optional)",
                           <<"North America", "Europe", "Asia">>)>>),
        ToolDescriptor("get_business_overview",
            "Get comprehensive business overview across all departments", <<>>) >>)

(***************************************************************************)
(* Inputs: the records the data files may hold.  The well-formed records   *)
(* have every field the executors read; each malformed record lacks one.   *)
(***************************************************************************)
Record(fields) ==
    PyDict([i \in 1..Len(fields) |-> <<Str(fields[i][1]), fields[i][2]>>])

SaleWon == Record(<< <<"status", Str("Closed Won")>>, <<"amount", PyInt(1000)>>,
                     <<"region", Str("Europe")>> >>)
SaleLost == Record(<< <<"status", Str("Lost")>>, <<"amount", PyInt(500)>>,
                      <<"region", Str("Asia")>> >>)
SaleOpen == Record(<< <<"status", Str("In Progress")>>, <<"amount", PyInt(250)>>,
                      <<"region", Str("Europe")>> >>)
SaleNoStatus == Record(<< <<"amount", PyInt(1000)>>, <<"region", Str("Europe")>> >>)
SaleNoAmount == Record(<< <<"status", Str("Closed Won")>>, <<"region", Str("Asia")>> >>)
SaleNoRegion == Record(<< <<"status", Str("Lost")>>, <<"amount", PyInt(500)>> >>)

SalesRecords == {SaleWon, SaleLost, SaleOpen, SaleNoStatus, SaleNoAmount, SaleNoRegion}

HrAnn == Record(<< <<"name", Str("Ann")>>, <<"department", Str("Engineering")>>,
                   <<"salary", PyInt(120)>>, <<"performance", Str("Excellent")>> >>)
HrBob == Record(<< <<"name", Str("Bob")>>, <<"department", Str("Sales")>>,
                   <<"salary", PyInt(90)>>, <<"performance", Str("Excellent")>> >>)
HrCyd == Record(<< <<"name", Str("Cyd")>>, <<"department", Str("Legal")>>,
                   <<"salary", PyInt(80)>>, <<"performance", Str("Good")>> >>)
HrNoPerformance == Record(<< <<"name", Str("Dee")>>, <<"department", Str("Engineering")>>,
                             <<"salary", PyInt(70)>> >>)
HrNoDepartment == Record(<< <<"name", Str("Eve")>>, <<"salary", PyInt(60)>>,
                            <<"performance", Str("Excellent")>> >>)

HrRecords == {HrAnn, HrBob, HrCyd, HrNoPerformance, HrNoDepartment}

TicketOpen == Record(<< <<"id", PyInt(1)>>, <<"status", Str("Open")>>,
                        <<"priority", Str("High")>> >>)
TicketResolved == Record(<< <<"id", PyInt(2)>>, <<"status", Str("Resolved")>>,
                            <<"priority", Str("Low")>> >>)
TicketInProgress == Record(<< <<"id", PyInt(3)>>, <<"status", Str("In Progress")>>,
                              <<"priority", Str("High")>> >>)
TicketNoStatus == Record(<< <<"id", PyInt(4)>>, <<"priority", Str("Low")>> >>)
TicketNoPriority == Record(<< <<"id", PyInt(5)>>, <<"status", Str("Open")>> >>)

SupportRecords == {TicketOpen, TicketResolved, TicketInProgress, TicketNoStatus,
                   TicketNoPriority}

\* the longest list of records in a data file
MaxRecs == 2

Lists(S, n) == UNION {[1..m -> S] : m \in 0..n}

\* the contents a file may have, with at most n records
Contents(records, n) ==
    {FileAbsent, FileGarbage} \cup {FileJson(PyList(l)) : l \in Lists(records, n)}

\* a file that is absent, empty or holds the one record r
Few(r) == {FileAbsent, FileJson(PyList(<<>>)), FileJson(PyList(<<r>>))}

Disk(sales, hr, support) ==
    [f \in FileNames |-> IF f = "sales.json" THEN sales
                         ELSE IF f = "hr.json" THEN hr ELSE support]

\* the disks of the executor checks: one file ranges over every content of
\* up to MaxRecs records while the other two hold little
ToolDisks ==
    {Disk(a, b, c) : a \in Contents(SalesRecords, MaxRecs), b \in Few(HrAnn),
                     c \in Few(TicketOpen)}
    \cup {Disk(a, b, c) : a \in Few(SaleWon), b \in Contents(HrRecords, MaxRecs),
                          c \in Few(TicketOpen)}
    \cup {Disk(a, b, c) : a \in Few(SaleWon), b \in Few(HrAnn),
                          c \in Contents(SupportRecords, MaxRecs)}

\* the disk of the session checks: complete data
SessionDisk ==
    Disk(FileJson(PyList(<<SaleWon, SaleLost>>)), FileJson(PyList(<<HrAnn, HrBob>>)),
         FileJson(PyList(<<TicketOpen, TicketResolved>>)))

\* the disks of the transport comparison: complete data, data with records
\* that lack a field, and no data files at all
ParityDisks == {
    SessionDisk,
    Disk(FileJson(PyList(<<SaleWon, SaleNoStatus>>)), FileJson(PyList(<<HrNoDepartment>>)),
         FileJson(PyList(<<TicketNoPriority>>))),
    Disk(FileAbsent, FileGarbage, FileAbsent) }

(***************************************************************************)
(* Inputs: arguments, requests and WebSocket frames.                       *)
(***************************************************************************)
NoArguments == PyDict(<<>>)
DepartmentArg(d) == Record(<< <<"department", Str(d)>> >>)
RegionArg(r) == Record(<< <<"region", Str(r)>> >>)

\* (tool_name, arguments) pairs handle_tool_call is invoked with directly
InvokeInputs == {
    <<Str("get_revenue_summary"), NoArguments>>,
    <<Str("get_revenue_summary"), PyNone>>,
    <<Str("get_top_performers"), NoArguments>>,
    <<Str("get_top_performers"), DepartmentArg("Engineering")>>,
    <<Str("get_top_performers"), Record(<< <<"department", EmptyStr>> >>)>>,
    <<Str("get_top_performers"), PyNone>>,
    <<Str("get_open_tickets"), NoArguments>>,
    <<Str("analyze_sales_performance"), NoArguments>>,
    <<Str("analyze_sales_performance"), RegionArg("Europe")>>,
    <<Str("analyze_sales_performance"), RegionArg("Mars")>>,
    <<Str("analyze_sales_performance"), Record(<< <<"region", EmptyStr>> >>)>>,
    <<Str("analyze_sales_performance"), PyList(<<Str("Europe")>>)>>,
    <<Str("get_business_overview"), NoArguments>>,
    <<Str("get_revenue"), NoArguments>>,
    <<Str(""), DepartmentArg("Sales")>>,
    <<PyNone, NoArguments>>,
    <<PyInt(7), PyNone>> }

\* POST /tools/{tool_name} requests: the path segment is a str, the body a
\* JSON object
ToolHttpRequests == {
    <<"get_revenue_summary", NoArguments>>,
    <<"get_top_performers", NoArguments>>,
    <<"get_top_performers", DepartmentArg("Sales")>>,
    <<"get_open_tickets", NoArguments>>,
    <<"analyze_sales_performance", RegionArg("Asia")>>,
    <<"get_business_overview", NoArguments>>,
    <<"get_revenue", NoArguments>>,
    <<"tools", RegionArg("Asia")>> }

ParityHttpRequests == {
    <<"get_revenue_summary", NoArguments>>,
    <<"get_top_performers", DepartmentArg("Engineering")>>,
    <<"get_revenue", NoArguments>> }

CallParams(name, arguments) == Record(<< <<"name", Str(name)>>, <<"arguments", arguments>> >>)

\* tools/call messages: known and unknown tools, arguments present, absent
\* and null, params null and absent, request_id a str, a number and absent
CallMessages == {
    Record(<< <<"type", Str("tools/call")>>, <<"request_id", Str("r1")>>,
              <<"params", CallParams("get_revenue_summary", NoArguments)>> >>),
    Record(<< <<"type", Str("tools/call")>>, <<"request_id", Str("r2")>>,
              <<"params", CallParams("get_top_performers", DepartmentArg("Engineering"))>> >>),
    Record(<< <<"type", Str("tools/call")>>, <<"request_id", Str("r1")>>,
              <<"params", Record(<< <<"name", Str("get_revenue")>> >>)>> >>),
    Record(<< <<"type", Str("tools/call")>>, <<"request_id", PyInt(7)>>,
              <<"params", CallParams("get_top_performers", PyNone)>> >>),
    Record(<< <<"type", Str("tools/call")>>, <<"request_id", Str("r2")>>,
              <<"params", PyNone>> >>),
    Record(<< <<"type", Str("tools/call")>> >>) }

\* the other messages a client serialises into frames
OtherMessages == {
    Record(<< <<"type", Str("tools/list")>>, <<"request_id", Str("r1")>> >>),
    Record(<< <<"type", Str("ping")>>, <<"request_id", Str("r1")>> >>),
    PyList(<<Str("tools/list")>>) }

\* a text that is not JSON
GarbageFrames == { <<"{", "\"", "type", "\"", ":">> }

CallFrames == {json_dumps(m, DumpsDefault) : m \in CallMessages}

ClientFrames ==
    CallFrames \cup {json_dumps(m, DumpsDefault) : m \in OtherMessages} \cup GarbageFrames

Conns == {"ws1", "ws2"}

\* the frames all clients together send in one run
MaxFrames == 2

(***************************************************************************)
(* State.                                                                  *)
(***************************************************************************)
VARIABLES
    disk,               \* the contents of data/sales.json, hr.json, support.json
    call,               \* the last direct invocation of handle_tool_call: what its
                        \* try block did (tried) and what it returned (outcome)
    http,               \* the last POST /tools/{tool_name} and its response
    pc,                 \* per connection: where its coroutine is suspended
    connected_clients,  \* self.connected_clients
    sent,               \* per connection: the frames its client has sent
    nread,              \* per connection: how many of them receive_text returned
    pending,            \* per connection: the text send_text is sending
    outbox              \* per connection: the texts delivered to the client

vars == <<disk, call, http, pc, connected_clients, sent, nread, pending, outbox>>

NoCall == [tool_name |-> PyNone, arguments |-> PyNone, tried |-> <<"idle", PyNone>>,
           outcome |-> <<"idle", PyNone>>]
NoHttp == [tool_name |-> "", arguments |-> PyNone, status |-> 0, body |-> <<>>]

InitRest ==
    /\ call = NoCall
    /\ http = NoHttp
    /\ pc = [c \in Conns |-> "connecting"]
    /\ connected_clients = <<>>
    /\ sent = [c \in Conns |-> <<>>]
    /\ nread = [c \in Conns |-> 0]
    /\ pending = [c \in Conns |-> <<>>]
    /\ outbox = [c \in Conns |-> <<>>]

Init == disk = SessionDisk /\ InitRest

InitParity == disk \in ParityDisks /\ InitRest

InitTools == disk \in ToolDisks /\ InitRest

(***************************************************************************)
(* handle_tool_call, invoked directly.                                     *)
(***************************************************************************)
Invoke(in) ==
    /\ call' = [tool_name |-> in[1], arguments |-> in[2],
                tried |-> Dispatch(disk, in[1], in[2]),
                outcome |-> handle_tool_call(disk, in[1], in[2])]
    /\ UNCHANGED <<disk, http, pc, connected_clients, sent, nread, pending, outbox>>

(***************************************************************************)
(* POST /tools/{tool_name}.  The framework serialises the returned dict    *)
(* compactly and without ASCII escapes; an exception leaving the handler   *)
(* becomes a 500 response.                                                 *)
(***************************************************************************)
HttpJson == [indent |-> 0, itemsep |-> <<",">>, keysep |-> <<":">>, ascii |-> FALSE]

\* a handler that answers a failed dispatch with an error status
call_tool_error_status(files, tool_name, arguments) ==
    LET result == handle_tool_call(files, Str(tool_name), arguments)
    IN  IF Returned(result) /\ ~HasKey(result[2], Str("error"))
        THEN [status |-> 200,
              body |-> json_dumps(Record(<< <<"result", result[2]>> >>), HttpJson)]
        ELSE [status |-> 500, body |-> <<"Internal Server Error">>]

\* call_tool: [status, body]
call_tool(files, tool_name, arguments) ==
    LET result == handle_tool_call(files, Str(tool_name), arguments)
    IN  IF Returned(result)
        THEN [status |-> 200,
              body |-> json_dumps(Record(<< <<"result", result[2]>> >>), HttpJson)]
        ELSE [status |-> 500, body |-> <<"Internal Server Error">>]

CallTool(req) ==
    /\ \E response \in {call_tool(disk, req[1], req[2])} :
           http' = [tool_name |-> req[1], arguments |-> req[2],
                    status |-> response.status, body |-> response.body]
    /\ UNCHANGED <<disk, call, pc, connected_clients, sent, nread, pending, outbox>>

(***************************************************************************)
(* /ws: websocket_endpoint.  The coroutine of a connection is suspended in *)
(* accept ("connecting"), in receive_text ("receiving") or in send_text    *)
(* ("sending"), or has left the function ("closed").  Between two awaits   *)
(* it runs without interleaving.                                           *)
(***************************************************************************)
Send(text) == <<"send", text>>

\* a final else that raises on a type it does not know
RejectType == Raise("RuntimeError", <<"unknown message type">>)

NoReply == <<"loop", <<>>>>

\* the loop body from the text receive_text returned to the next await:
\* Send(text), NoReply, or the exception raised
OnText(files, data) ==
    LET decoded == json_loads(data)
        message == decoded.val
        type == DictGet(message, Str("type"), PyNone)
        request_id == DictGet(message, Str("request_id"), PyNone)
        params == DictGet(message, Str("params"), PyDict(<<>>))
        tool_name == DictGet(params, Str("name"), PyNone)
        arguments == DictGet(params, Str("arguments"), PyDict(<<>>))
        result == handle_tool_call(files, tool_name, arguments)
    IN  IF ~decoded.ok THEN Raise("JSONDecodeError", <<"Expecting value">>)
        ELSE IF ~IsDict(message) THEN NoGetAttribute(message)
        ELSE IF type = Str("tools/list")
        THEN Send(json_dumps(Record(<<
                <<"type", Str("tools/list")>>,
                <<"request_id", request_id>>,
                <<"result", Record(<< <<"tools", get_available_tools>> >>)>> >>),
                DumpsDefault))
        ELSE IF type = Str("tools/call")
        THEN IF ~IsDict(params) THEN NoGetAttribute(params)
             ELSE IF Raised(result) THEN result
             ELSE Send(json_dumps(Record(<<
                <<"type", Str("tools/call")>>,
                <<"request_id", request_id>>,
                <<"result", Record(<< <<"content", PyList(<<Record(<<
                    <<"type", Str("text")>>,
                    <<"text", PyStr(json_dumps(result[2], DumpsIndent2))>> >>)>>)>> >>)>> >>),
                DumpsDefault))
        ELSE NoReply

\* list.pop(): the last element, whatever x is
RemoveLast(s, x) == SubSeq(s, 1, Len(s) - 1)

\* list.remove(x): the first occurrence
Remove(s, x) ==
    LET i == CHOOSE j \in 1..Len(s) : s[j] = x /\ \A j2 \in 1..(j - 1) : s[j2] # x
    IN  SubSeq(s, 1, i - 1) \o SubSeq(s, i + 1, Len(s))

\* an accept that registers the connection twice
AcceptTwice(c) ==
    /\ pc[c] = "connecting"
    /\ pc' = [pc EXCEPT ![c] = "receiving"]
    /\ connected_clients' = Append(Append(connected_clients, c), c)
    /\ UNCHANGED <<disk, call, http, sent, nread, pending, outbox>>

\* await websocket.accept(); self.connected_clients.append(websocket)
Accept(c) ==
    /\ pc[c] = "connecting"
    /\ pc' = [pc EXCEPT ![c] = "receiving"]
    /\ connected_clients' = Append(connected_clients, c)
    /\ UNCHANGED <<disk, call, http, sent, nread, pending, outbox>>

RECURSIVE SumOver(_, _)
SumOver(f, S) ==
    IF S = {} THEN 0
    ELSE LET x == CHOOSE y \in S : TRUE IN f[x] + SumOver(f, S \ {x})

FramesSent == SumOver([c \in Conns |-> Len(sent[c])], Conns)

\* the client writes a frame to its end of an established connection
ClientSend(c, frame) ==
    /\ pc[c] # "connecting"
    /\ FramesSent < MaxFrames
    /\ sent' = [sent EXCEPT ![c] = Append(@, frame)]
    /\ UNCHANGED <<disk, call, http, pc, connected_clients, nread, pending, outbox>>

\* an except clause that clears the registry and ends every coroutine
CloseEverySession(c) ==
    /\ connected_clients' = <<>>
    /\ pc' = [d \in Conns |-> "closed"]

\* both except clauses: self.connected_clients.remove(websocket), and the
\* function returns
CloseSession(c) ==
    /\ connected_clients' = Remove(connected_clients, c)
    /\ pc' = [pc EXCEPT ![c] = "closed"]

\* receive_text returns the next frame; the loop body runs to its next await
Receive(c) ==
    /\ pc[c] = "receiving"
    /\ nread[c] < Len(sent[c])
    /\ nread' = [nread EXCEPT ![c] = @ + 1]
    /\ \E step \in {OnText(disk, sent[c][nread[c] + 1])} :
           IF step[1] = "send"
           THEN /\ pending' = [pending EXCEPT ![c] = step[2]]
                /\ pc' = [pc EXCEPT ![c] = "sending"]
                /\ UNCHANGED connected_clients
           ELSE IF step[1] = "loop"
           THEN UNCHANGED <<pending, pc, connected_clients>>
           ELSE /\ step[2][1] \in ExceptionClasses
                /\ CloseSession(c)
                /\ UNCHANGED pending
    /\ UNCHANGED <<disk, call, http, sent, outbox>>

\* a send_text after which the newest response is the client's first
SendDoneFirst(c) ==
    /\ pc[c] = "sending"
    /\ outbox' = [outbox EXCEPT ![c] = <<pending[c]>> \o @]
    /\ pending' = [pending EXCEPT ![c] = <<>>]
    /\ pc' = [pc EXCEPT ![c] = "receiving"]
    /\ UNCHANGED <<disk, call, http, connected_clients, sent, nread>>

\* send_text returns: the response is with the client
SendDone(c) ==
    /\ pc[c] = "sending"
    /\ outbox' = [outbox EXCEPT ![c] = Append(@, pending[c])]
    /\ pending' = [pending EXCEPT ![c] = <<>>]
    /\ pc' = [pc EXCEPT ![c] = "receiving"]
    /\ UNCHANGED <<disk, call, http, connected_clients, sent, nread>>

\* send_text raises: the transport is gone
SendFail(c) ==
    /\ pc[c] = "sending"
    /\ CloseSession(c)
    /\ pending' = [pending EXCEPT ![c] = <<>>]
    /\ UNCHANGED <<disk, call, http, sent, nread, outbox>>

\* receive_text raises WebSocketDisconnect: the peer closed or the transport
\* dropped; frames still in flight are lost
Disconnect(c) ==
    /\ pc[c] = "receiving"
    /\ CloseSession(c)
    /\ UNCHANGED <<disk, call, http, sent, nread, pending, outbox>>

Next ==
    \/ \E c \in Conns : Accept(c)
    \/ \E c \in Conns, frame \in ClientFrames : ClientSend(c, frame)
    \/ \E c \in Conns : Receive(c)
    \/ \E c \in Conns : SendDone(c)
    \/ \E c \in Conns : SendFail(c)
    \/ \E c \in Conns : Disconnect(c)

Spec == Init /\ [][Next]_vars

\* POST /tools/{tool_name} beside one WebSocket connection that carries
\* tools/call messages
NextParity ==
    \/ Accept("ws1")
    \/ \E frame \in CallFrames : ClientSend("ws1", frame)
    \/ Receive("ws1")
    \/ SendDone("ws1")
    \/ \E req \in ParityHttpRequests : CallTool(req)

SpecParity == InitParity /\ [][NextParity]_vars

\* The executor checks make one request per run: no handler changes the
\* disk or keeps state, so a later request repeats what a first one does.
Idle == call = NoCall /\ http = NoHttp

NextTools ==
    \/ \E in \in InvokeInputs : Idle /\ Invoke(in)
    \/ \E req \in ToolHttpRequests : Idle /\ CallTool(req)

SpecTools == InitTools /\ [][NextTools]_vars

(***************************************************************************)
(* Properties of the dispatcher and the executors, under SpecTools.        *)
(***************************************************************************)
Called == call # NoCall

RegisteredNames == {Str(ToolNames[i]) : i \in 1..Len(ToolNames)}

\* C1: for every tool name, arguments value and content of the data files,
\* handle_tool_call returns a dict and never raises; when its try block
\* raised, in an executor or in arguments.get, it returns {"error": str(e)}.
C1_DispatcherNeverRaises ==
    Called =>
        /\ Returned(call.outcome)
        /\ IsDict(call.outcome[2])
        /\ Raised(call.tried) => call.outcome[2] = ErrorDict(call.tried[2][2])
        /\ Returned(call.tried) => call.outcome = call.tried

\* a call whose arguments are no dict: arguments.get raised AttributeError
C1_Witness ==
    /\ Called
    /\ ~IsDict(call.arguments)
    /\ Raised(call.tried)
    /\ call.tried[2][1] = "AttributeError"
    /\ Returned(call.outcome)

\* C2: for a tool name that is none of the five registered, handle_tool_call
\* returns {"error": "Unknown tool: <name>"}, whatever the arguments and
\* whatever the data files hold: no executor runs, no file is read.
C2_UnknownToolFails ==
    (Called /\ call.tool_name \notin RegisteredNames) =>
        /\ call.tried = call.outcome
        /\ call.outcome =
             Return(PyDict(<< <<Str("error"),
                               PyStr(<<"Unknown tool: ">> \o
                                     (IF IsStr(call.tool_name) THEN call.tool_name[2]
                                      ELSE PyRepr(call.tool_name)))>> >>))

\* the unknown name get_revenue, on a disk whose sales file has a record
\* without status, which get_revenue_summary would fault on
C2_Witness ==
    /\ Called
    /\ call.tool_name = Str("get_revenue")
    /\ disk["sales.json"] = FileJson(PyList(<<SaleNoStatus>>))
    /\ call.outcome = Return(ErrorDict(<<"Unknown tool: ", "get_revenue">>))

\* the files an executor loads
FilesRead(tool_name) ==
    IF tool_name = Str("get_revenue_summary") THEN {"sales.json"}
    ELSE IF tool_name = Str("get_top_performers") THEN {"hr.json"}
    ELSE IF tool_name = Str("get_open_tickets") THEN {"support.json"}
    ELSE IF tool_name = Str("analyze_sales_performance") THEN {"sales.json"}
    ELSE FileNames

\* the records a file holds: none when it is absent or is no JSON
RecordsIn(f) == IF disk[f][1] = "json" THEN disk[f][2][2] ELSE <<>>

\* the fields the executors read from the records of a file
FieldsOf(f) ==
    IF f = "sales.json" THEN {"status", "amount", "region"}
    ELSE IF f = "hr.json" THEN {"name", "department", "salary", "performance"}
    ELSE {"status", "priority"}

\* every number in x is 0 and every list in x is empty
RECURSIVE Blank(_)
Blank(x) ==
    CASE x[1] \in {"int", "float"} -> x[2] = 0
      [] x[1] = "list" -> x[2] = <<>>
      [] x[1] = "dict" -> \A i \in 1..Len(x[2]) : Blank(x[2][i][2])
      [] OTHER -> TRUE

\* an executor was entered: a registered tool with dict arguments
ExecutorRan == Called /\ call.tool_name \in RegisteredNames /\ IsDict(call.arguments)

Posted == http # NoHttp

\* C9: POST /tools/{tool_name} with a JSON object of arguments answers with
\* status 200 and a body that decodes to {"result": X}.  When the dispatch
\* failed (the tool is unknown or the executor raised) X is {"error":
\* message}; otherwise X is what the executor returned, without an "error"
\* key.
C9_HttpFoldsErrors ==
    Posted =>
        LET decoded == json_loads(http.body)
            tried == Dispatch(disk, Str(http.tool_name), http.arguments)
            X == Item(decoded.val, Str("result"))
        IN  /\ http.status = 200
            /\ decoded.ok
            /\ IsDict(decoded.val)
            /\ Keys(decoded.val) = <<Str("result")>>
            /\ IsDict(X)
            /\ Str(http.tool_name) \notin RegisteredNames =>
                 X = ErrorDict(<<"Unknown tool: ", http.tool_name>>)
            /\ Raised(tried) => X = ErrorDict(tried[2][2])
            /\ (Str(http.tool_name) \in RegisteredNames /\ Returned(tried)) =>
                 X = tried[2] /\ ~HasKey(X, Str("error"))

\* get_top_performers over an employee without performance: status 200 and
\* the KeyError in the body
C9_Witness ==
    /\ Posted
    /\ http.tool_name = "get_top_performers"
    /\ disk["hr.json"] = FileJson(PyList(<<HrAnn, HrNoPerformance>>))
    /\ http.status = 200
    /\ json_loads(http.body).val =
         Record(<< <<"result", ErrorDict(<<"'", "performance", "'">>)>> >>)

\* the sales records, all with status, amount and region
SalesWellFormed ==
    \A i \in 1..Len(RecordsIn("sales.json")) :
        \A k \in FieldsOf("sales.json") : HasKey(RecordsIn("sales.json")[i], Str(k))

\* the indices of the sales records with a status
WithStatus(status) ==
    {i \in 1..Len(RecordsIn("sales.json")) :
        Item(RecordsIn("sales.json")[i], Str("status")) = Str(status)}

\* the sum of amount over the sales records with a status
AmountWithStatus(status) ==
    SumSeq([i \in 1..Len(RecordsIn("sales.json")) |->
        IF i \in WithStatus(status)
        THEN Item(RecordsIn("sales.json")[i], Str("amount"))[2] ELSE 0])

\* C10: get_revenue_summary over well-formed sales records returns the sum
\* of amount over Closed Won and over In Progress, the counts of the three
\* statuses, and win_rate = closed deals / all records, here to the three
\* decimals the model keeps; over no records win_rate and
\* total_closed_revenue are the int 0 and nothing is raised.
C10_RevenueSummary ==
    (Called /\ call.tool_name = Str("get_revenue_summary") /\ SalesWellFormed) =>
        LET n == Len(RecordsIn("sales.json"))
            result == call.outcome[2]
            win_rate == Item(result, Str("win_rate"))
        IN  /\ Returned(call.tried)
            /\ call.outcome = call.tried
            /\ Item(result, Str("total_closed_revenue")) = PyInt(AmountWithStatus("Closed Won"))
            /\ Item(result, Str("potential_revenue")) = PyInt(AmountWithStatus("In Progress"))
            /\ Item(result, Str("closed_deals")) = PyInt(Cardinality(WithStatus("Closed Won")))
            /\ Item(result, Str("deals_in_progress")) =
                 PyInt(Cardinality(WithStatus("In Progress")))
            /\ Item(result, Str("lost_deals")) = PyInt(Cardinality(WithStatus("Lost")))
            /\ n = 0 => win_rate = PyInt(0)
                        /\ Item(result, Str("total_closed_revenue")) = PyInt(0)
            /\ n > 0 =>
                 /\ win_rate[1] = "float"
                 /\ 2 * (win_rate[2] * n - Cardinality(WithStatus("Closed Won")) * FloatScale) <= n
                 /\ 2 * (Cardinality(WithStatus("Closed Won")) * FloatScale - win_rate[2] * n) <= n

\* one deal won and one in progress: win_rate 0.5
C10_Witness ==
    /\ Called
    /\ call.tool_name = Str("get_revenue_summary")
    /\ disk["sales.json"] = FileJson(PyList(<<SaleWon, SaleOpen>>))
    /\ Item(call.outcome[2], Str("win_rate")) = PyFloat(FloatScale \div 2)
    /\ Item(call.outcome[2], Str("total_closed_revenue")) = PyInt(1000)
    /\ Item(call.outcome[2], Str("potential_revenue")) = PyInt(250)

(***************************************************************************)
(* Properties of the WebSocket sessions, under Spec.                       *)
(***************************************************************************)
Range(s) == {s[i] : i \in 1..Len(s)}

Open(c) == pc[c] \in {"receiving", "sending"}

\* the frames of the clients and the responses to them, and what each
\* decodes to, computed once
KnownTexts ==
    ClientFrames \cup
    {OnText(files, frame)[2] :
        <<files, frame>> \in {in \in ParityDisks \X ClientFrames :
                                 OnText(in[1], in[2])[1] = "send"}}

Decoded == [text \in KnownTexts |-> json_loads(text)]

Loads(text) == IF text \in KnownTexts THEN Decoded[text] ELSE json_loads(text)

\* the JSON object a text decodes to; None when it decodes to none
MessageOf(text) ==
    IF Loads(text).ok /\ IsDict(Loads(text).val) THEN Loads(text).val ELSE PyNone

TypeOf(text) ==
    IF IsDict(MessageOf(text)) THEN DictGet(MessageOf(text), Str("type"), PyNone) ELSE PyNone

RequestIdOf(text) ==
    IF IsDict(MessageOf(text)) THEN DictGet(MessageOf(text), Str("request_id"), PyNone)
    ELSE PyNone

IsCallFrame(text) == TypeOf(text) = Str("tools/call")

\* a tools/list message, or a tools/call message whose params is an object
\* or is absent
WellFormedRequest(text) ==
    \/ TypeOf(text) = Str("tools/list")
    \/ /\ TypeOf(text) = Str("tools/call")
       /\ IsDict(DictGet(MessageOf(text), Str("params"), PyDict(<<>>)))

\* C4 as stated: when the handler reads a tools/call message on an Open
\* connection, whatever its request_id and its params, it sends one
\* response, of type tools/call and with the same request_id.
C4_EveryCallAnswered ==
    [][\A c \in Conns :
         (nread'[c] = nread[c] + 1 /\ IsCallFrame(sent[c][nread'[c]])) =>
            /\ pc'[c] = "sending"
            /\ TypeOf(pending'[c]) = Str("tools/call")
            /\ RequestIdOf(pending'[c]) = RequestIdOf(sent[c][nread'[c]])]_vars

\* the frames of c read so far that the handler answers
Answered(c) == SelectSeq(SubSeq(sent[c], 1, nread[c]), WellFormedRequest)

\* the responses of c, delivered or being sent
Responses(c) == IF pc[c] = "sending" THEN Append(outbox[c], pending[c]) ELSE outbox[c]

\* C5: on each connection a response is being sent exactly while the
\* handler is suspended in send_text, for the frame read last, so that no
\* frame is read before the previous response is out; the request_ids and
\* types of the responses are those of the answered requests, in the order
\* they were read, none missing while the connection is Open and at most
\* the last one missing after a send failed.
C5_ResponsesInOrder ==
    \A c \in Conns :
        LET requests == Answered(c)
            responses == Responses(c)
        IN  /\ (pc[c] = "sending") = (pending[c] # <<>>)
            /\ pc[c] = "sending" => WellFormedRequest(sent[c][nread[c]])
            /\ Len(responses) <= Len(requests)
            /\ Len(requests) <= Len(responses) + 1
            /\ Open(c) => Len(responses) = Len(requests)
            /\ \A i \in 1..Len(responses) :
                  /\ RequestIdOf(responses[i]) = RequestIdOf(requests[i])
                  /\ TypeOf(responses[i]) = TypeOf(requests[i])

\* two requests with different request_ids answered on one connection
C5_Witness ==
    \E c \in Conns :
        /\ Len(outbox[c]) = 2
        /\ RequestIdOf(outbox[c][1]) = Str("r2")
        /\ RequestIdOf(outbox[c][2]) = Str("r1")
        /\ RequestIdOf(sent[c][1]) = Str("r2")

\* C6: a frame that cannot be decoded, and a disconnect of the transport
\* while receiving or sending, close the connection; a closed connection is
\* not in connected_clients, and from then on none of its frames is read
\* and nothing is sent on it, whatever the client still writes.
C6_ClosedOnFault ==
    [][\A c \in Conns :
         /\ (nread'[c] = nread[c] + 1 /\ ~Loads(sent[c][nread'[c]]).ok) =>
               pc'[c] = "closed"
         /\ (Disconnect(c) \/ SendFail(c)) => pc'[c] = "closed"
         /\ pc'[c] = "closed" => c \notin Range(connected_clients') /\ pending'[c] = <<>>
         /\ pc[c] = "closed" =>
               /\ pc'[c] = "closed"
               /\ nread'[c] = nread[c]
               /\ outbox'[c] = outbox[c]]_vars

\* a connection closed by a frame that is no JSON, with a later frame unread
C6_Witness ==
    \E c \in Conns :
        /\ pc[c] = "closed"
        /\ nread[c] = 1
        /\ sent[c][1] \in GarbageFrames
        /\ Len(sent[c]) = 2
        /\ outbox[c] = <<>>
        /\ c \notin Range(connected_clients)

\* C7: a step that closes one connection, on a malformed message or a
\* transport fault, changes nothing of any other connection: its coroutine,
\* its place in connected_clients, its frames and its responses; an Open
\* connection is in connected_clients, and a well-formed tools/list or
\* tools/call message read on it is answered whatever state the other
\* connections are in.
C7_FaultIsolation ==
    [][\A c \in Conns :
         /\ (pc[c] # "closed" /\ pc'[c] = "closed") =>
               \A d \in Conns \ {c} :
                  /\ pc'[d] = pc[d]
                  /\ (d \in Range(connected_clients')) = (d \in Range(connected_clients))
                  /\ sent'[d] = sent[d]
                  /\ nread'[d] = nread[d]
                  /\ pending'[d] = pending[d]
                  /\ outbox'[d] = outbox[d]
         /\ (pc'[c] \in {"receiving", "sending"}) => c \in Range(connected_clients')
         /\ (nread'[c] = nread[c] + 1 /\ WellFormedRequest(sent[c][nread'[c]])) =>
               /\ pc'[c] = "sending"
               /\ TypeOf(pending'[c]) = TypeOf(sent[c][nread'[c]])]_vars

\* one connection closed by a frame that is no JSON while the other, still
\* Open and registered, has had its request answered
C7_Witness ==
    \E c \in Conns : \E d \in Conns \ {c} :
        /\ pc[c] = "closed"
        /\ sent[c] = <<CHOOSE frame \in GarbageFrames : TRUE>>
        /\ nread[c] = 1
        /\ pc[d] = "receiving"
        /\ d \in Range(connected_clients)
        /\ Len(outbox[d]) = 1
        /\ nread[d] = 1

\* how often c is in connected_clients
Registrations(c) ==
    Cardinality({i \in 1..Len(connected_clients) : connected_clients[i] = c})

\* C15: connected_clients holds exactly the Open connections, each once, in
\* every reachable state; the step that accepts a connection appends it,
\* the step that closes a connection removes it and nothing else, and a step
\* that neither accepts nor closes a connection (a frame written, a message
\* processed, a tool dispatched, a response sent) leaves connected_clients
\* as it is.
C15_RegistryIsOpenSessions ==
    /\ [](\A c \in Conns : Registrations(c) = IF Open(c) THEN 1 ELSE 0)
    /\ [](Range(connected_clients) \subseteq Conns)
    /\ [][/\ \A c \in Conns :
              /\ (pc[c] = "connecting" /\ pc'[c] # "connecting") =>
                    connected_clients' = Append(connected_clients, c)
              /\ (pc[c] # "closed" /\ pc'[c] = "closed") =>
                    /\ Registrations(c) = 1
                    /\ connected_clients' =
                          SelectSeq(connected_clients, LAMBDA d : d # c)
          /\ (\A c \in Conns : Open(c)' = Open(c)) =>
                connected_clients' = connected_clients]_vars

\* the first connection accepted has closed without a frame read, and the
\* second, the only one registered, has had a request answered
C15_Witness ==
    \E c \in Conns : \E d \in Conns \ {c} :
        /\ pc[c] = "closed"
        /\ nread[c] = 0
        /\ pc[d] = "receiving"
        /\ connected_clients = <<d>>
        /\ Len(outbox[d]) = 1
        /\ Len(sent[d]) = 1

\* a JSON object whose type is neither tools/list nor tools/call
OtherType(text) ==
    /\ IsDict(MessageOf(text))
    /\ TypeOf(text) \notin {Str("tools/list"), Str("tools/call")}

\* C17: when the handler reads a JSON object whose type is neither
\* tools/list nor tools/call, it sends nothing and goes back to
\* receive_text: the connection stays Open and in connected_clients, with
\* no response pending and none added to those delivered; the frame read
\* next on the connection is processed as any other, a well-formed
\* tools/list or tools/call message being answered with its type and
\* request_id.
C17_OtherTypeDropped ==
    [][\A c \in Conns :
         /\ (nread'[c] = nread[c] + 1 /\ OtherType(sent[c][nread'[c]])) =>
               /\ pc[c] = "receiving" /\ pc'[c] = "receiving"
               /\ connected_clients' = connected_clients
               /\ c \in Range(connected_clients')
               /\ pending'[c] = <<>>
               /\ outbox'[c] = outbox[c]
         /\ (/\ nread[c] >= 1
             /\ OtherType(sent[c][nread[c]])
             /\ nread'[c] = nread[c] + 1
             /\ WellFormedRequest(sent[c][nread'[c]])) =>
               /\ pc'[c] = "sending"
               /\ TypeOf(pending'[c]) = TypeOf(sent[c][nread'[c]])
               /\ RequestIdOf(pending'[c]) = RequestIdOf(sent[c][nread'[c]])]_vars

\* a ping was read and left unanswered, and the tools/call message after it
\* has been answered
C17_Witness ==
    \E c \in Conns :
        /\ Len(sent[c]) = 2
        /\ TypeOf(sent[c][1]) = Str("ping")
        /\ TypeOf(sent[c][2]) = Str("tools/call")
        /\ nread[c] = 2
        /\ pc[c] = "receiving"
        /\ c \in Range(connected_clients)
        /\ Len(outbox[c]) = 1
        /\ TypeOf(outbox[c][1]) = Str("tools/call")

(***************************************************************************)
(* The two transports compared, under SpecParity.                          *)
(***************************************************************************)
\* the object decoded from result.content[0].text of a tools/call response
EmbeddedResult(response) ==
    LET result == Item(MessageOf(response), Str("result"))
        content == Item(result, Str("content"))
        text == Item(content[2][1], Str("text"))
    IN  json_loads(text[2])

\* C8: when a tools/call response on the WebSocket and a POST response
\* answer the same tool name and arguments over the same data files, the
\* JSON text embedded in the former decodes to the value under "result" in
\* the body of the latter, for results and for {"error": ...} alike.
C8_TransportsAgree ==
    Posted =>
        \A i \in 1..Len(outbox["ws1"]) :
            LET params == DictGet(MessageOf(Answered("ws1")[i]), Str("params"), PyDict(<<>>))
                body == json_loads(http.body)
            IN  (/\ DictGet(params, Str("name"), PyNone) = Str(http.tool_name)
                 /\ DictGet(params, Str("arguments"), PyDict(<<>>)) = http.arguments) =>
                    /\ body.ok
                    /\ EmbeddedResult(outbox["ws1"][i]).ok
                    /\ EmbeddedResult(outbox["ws1"][i]).val = Item(body.val, Str("result"))

\* get_top_performers for Engineering over an employee without department,
\* on both transports: the same {"error": "'department'"}
C8_Witness ==
    /\ Posted
    /\ http.tool_name = "get_top_performers"
    /\ disk["hr.json"] = FileJson(PyList(<<HrNoDepartment>>))
    /\ Len(outbox["ws1"]) = 1
    /\ RequestIdOf(sent["ws1"][1]) = Str("r2")
    /\ EmbeddedResult(outbox["ws1"][1]).val = ErrorDict(<<"'", "department", "'">>)

(***************************************************************************)
(* Properties of the single executors, under SpecTools.                    *)
(***************************************************************************)
\* the records of a file, all with every field the executors read
WellFormed(f) ==
    \A i \in 1..Len(RecordsIn(f)) : \A k \in FieldsOf(f) : HasKey(RecordsIn(f)[i], Str(k))

\* get_top_performers was entered, over well-formed employees
TopPerformersRan ==
    /\ ExecutorRan
    /\ call.tool_name = Str("get_top_performers")
    /\ WellFormed("hr.json")

\* the Excellent employees, in file order; those of one department when
\* byDepartment
ExcellentIn(byDepartment, department) ==
    SelectSeq(RecordsIn("hr.json"),
              LAMBDA r : /\ Item(r, Str("performance")) = Str("Excellent")
                         /\ byDepartment => Item(r, Str("department")) = department)

\* get_top_performers returned the employees expected, and their number
TopPerformersAre(expected) ==
    /\ Returned(call.tried)
    /\ call.outcome = call.tried
    /\ Item(call.outcome[2], Str("top_performers")) = PyList(expected)
    /\ Item(call.outcome[2], Str("count")) = PyInt(Len(expected))

\* C11 as stated: with a department D in the arguments, whatever D is,
\* get_top_performers returns exactly the Excellent employees of department
\* D, and all Excellent employees without one; count is the length of the
\* list.
C11_TopPerformersOfAnyDepartment ==
    TopPerformersRan =>
        TopPerformersAre(ExcellentIn(HasKey(call.arguments, Str("department")),
                                     DictGet(call.arguments, Str("department"), PyNone)))

\* C11, amended: the department filters only when it is truthy.  With a
\* non-empty department D the result is exactly the Excellent employees of
\* D; without a department, and with the empty string as department, it is
\* all Excellent employees; count is the length of the list, 0 for an
\* empty list, and nothing is raised.
C11_TopPerformers ==
    TopPerformersRan =>
        LET department == DictGet(call.arguments, Str("department"), PyNone)
        IN  TopPerformersAre(ExcellentIn(department \notin {PyNone, EmptyStr}, department))

\* Engineering asked for, over one Excellent engineer and one Excellent
\* salesperson: the engineer alone is returned
C11_Witness ==
    /\ TopPerformersRan
    /\ call.arguments = DepartmentArg("Engineering")
    /\ disk["hr.json"] = FileJson(PyList(<<HrBob, HrAnn>>))
    /\ Item(call.outcome[2], Str("top_performers")) = PyList(<<HrAnn>>)
    /\ Item(call.outcome[2], Str("count")) = PyInt(1)

\* get_business_overview was entered, over well-formed files
OverviewRan ==
    /\ ExecutorRan
    /\ call.tool_name = Str("get_business_overview")
    /\ \A f \in FileNames : WellFormed(f)

\* the number of employees of a department
Headcount(department) ==
    Cardinality({i \in 1..Len(RecordsIn("hr.json")) :
        Item(RecordsIn("hr.json")[i], Str("department")) = Str(department)})

\* C12: the departments of get_business_overview are exactly the keys
\* Engineering, Sales, Marketing and Support, each with the number of
\* employees of that department, 0 when there is none; an employee of
\* another department adds no key, so the four numbers sum to at most the
\* employees reported.
C12_DepartmentBreakdown ==
    OverviewRan =>
        LET departments == Item(call.outcome[2], Str("departments"))
            health == Item(call.outcome[2], Str("business_health"))
        IN  /\ Returned(call.tried)
            /\ call.outcome = call.tried
            /\ Keys(departments) =
                 <<Str("Engineering"), Str("Sales"), Str("Marketing"), Str("Support")>>
            /\ \A d \in {"Engineering", "Sales", "Marketing", "Support"} :
                  Item(departments, Str(d)) = PyInt(Headcount(d))
            /\ Item(health, Str("employees")) = PyInt(Len(RecordsIn("hr.json")))
            /\ Headcount("Engineering") + Headcount("Sales") + Headcount("Marketing")
                 + Headcount("Support") <= Len(RecordsIn("hr.json"))

\* one engineer and one employee of Legal: two employees, one of them in
\* the breakdown, and three departments at 0
C12_Witness ==
    /\ OverviewRan
    /\ disk["hr.json"] = FileJson(PyList(<<HrCyd, HrAnn>>))
    /\ Item(call.outcome[2], Str("departments")) =
         Record(<< <<"Engineering", PyInt(1)>>, <<"Sales", PyInt(0)>>,
                   <<"Marketing", PyInt(0)>>, <<"Support", PyInt(0)>> >>)
    /\ Item(Item(call.outcome[2], Str("business_health")), Str("employees")) = PyInt(2)

\* get_open_tickets was entered, over well-formed tickets
OpenTicketsRan ==
    /\ ExecutorRan
    /\ call.tool_name = Str("get_open_tickets")
    /\ WellFormed("support.json")

\* table is the frequency table of field over recs: a key for each value
\* that occurs, mapped to the number of its occurrences
IsFrequencyTable(table, recs, field) ==
    /\ IsDict(table)
    /\ \A i \in 1..Len(table[2]) : \A j \in 1..Len(table[2]) :
          table[2][i][1] = table[2][j][1] => i = j
    /\ \A i \in 1..Len(recs) : HasKey(table, Item(recs[i], Str(field)))
    /\ \A i \in 1..Len(table[2]) :
          /\ table[2][i][2] =
               PyInt(Cardinality({n \in 1..Len(recs) :
                                    Item(recs[n], Str(field)) = table[2][i][1]}))
          /\ table[2][i][2][2] > 0

\* the sum of the values of a table
TableTotal(table) == SumSeq([i \in 1..Len(table[2]) |-> table[2][i][2][2]])

\* C13: get_open_tickets returns exactly the tickets whose status is not
\* "Resolved", in file order; tickets_by_status and tickets_by_priority are
\* the frequency tables of those tickets, so "Resolved" is no key of
\* tickets_by_status, and the values of each table sum to
\* open_tickets_count, the length of open_tickets.
C13_OpenTickets ==
    OpenTicketsRan =>
        LET expected == SelectSeq(RecordsIn("support.json"),
                                  LAMBDA t : Item(t, Str("status")) # Str("Resolved"))
            result == call.outcome[2]
            by_status == Item(result, Str("tickets_by_status"))
            by_priority == Item(result, Str("tickets_by_priority"))
        IN  /\ Returned(call.tried)
            /\ call.outcome = call.tried
            /\ Item(result, Str("open_tickets")) = PyList(expected)
            /\ Item(result, Str("open_tickets_count")) = PyInt(Len(expected))
            /\ IsFrequencyTable(by_status, expected, "status")
            /\ IsFrequencyTable(by_priority, expected, "priority")
            /\ ~HasKey(by_status, Str("Resolved"))
            /\ TableTotal(by_status) = Len(expected)
            /\ TableTotal(by_priority) = Len(expected)

\* one ticket Resolved and one Open: the Open one alone is returned
C13_Witness ==
    /\ OpenTicketsRan
    /\ disk["support.json"] = FileJson(PyList(<<TicketResolved, TicketOpen>>))
    /\ Item(call.outcome[2], Str("open_tickets")) = PyList(<<TicketOpen>>)
    /\ Item(call.outcome[2], Str("tickets_by_status")) = Record(<< <<"Open", PyInt(1)>> >>)
    /\ Item(call.outcome[2], Str("tickets_by_priority")) = Record(<< <<"High", PyInt(1)>> >>)

\* analyze_sales_performance was entered, over well-formed sales
SalesAnalysisRan ==
    /\ ExecutorRan
    /\ call.tool_name = Str("analyze_sales_performance")
    /\ WellFormed("sales.json")

\* the sales, in file order; those of one region when byRegion
SalesIn(byRegion, region) ==
    SelectSeq(RecordsIn("sales.json"),
              LAMBDA r : byRegion => Item(r, Str("region")) = region)

\* the sum of amount over the records of kept that satisfy Test
AmountOver(kept, Test(_)) ==
    SumSeq([i \in 1..Len(kept) |->
        IF Test(kept[i]) THEN Item(kept[i], Str("amount"))[2] ELSE 0])

\* analyze_sales_performance returned the figures of the sales kept
SalesAnalysisIs(kept) ==
    LET result == call.outcome[2]
        total == AmountOver(kept, LAMBDA r : TRUE)
        average == Item(result, Str("average_deal_size"))
    IN  /\ Returned(call.tried)
        /\ call.outcome = call.tried
        /\ Item(result, Str("total_deals")) = PyInt(Len(kept))
        /\ IsFrequencyTable(Item(result, Str("deals_by_status")), kept, "status")
        /\ TableTotal(Item(result, Str("deals_by_status"))) = Len(kept)
        /\ Item(result, Str("total_amount")) = PyInt(total)
        /\ Item(result, Str("closed_amount")) =
             PyInt(AmountOver(kept, LAMBDA r : Item(r, Str("status")) = Str("Closed Won")))
        /\ kept = <<>> => average = PyInt(0)
        /\ kept # <<>> =>
             /\ average[1] = "float"
             /\ 2 * (average[2] * Len(kept) - total * FloatScale) <= Len(kept)
             /\ 2 * (total * FloatScale - average[2] * Len(kept)) <= Len(kept)

\* C14 as stated: with a region in the arguments, whatever it is,
\* analyze_sales_performance keeps the sales of that region alone, and all
\* sales without one; deals_by_status, total_deals, total_amount,
\* closed_amount and average_deal_size are those of the sales kept.
C14_SalesOfAnyRegion ==
    SalesAnalysisRan =>
        SalesAnalysisIs(SalesIn(HasKey(call.arguments, Str("region")),
                                DictGet(call.arguments, Str("region"), PyNone)))

\* C14, amended: the region filters only when it is truthy.  With a
\* non-empty region the sales of that region are kept, and all sales
\* without a region and with the empty string as region; deals_by_status is
\* the frequency table of the sales kept and sums to total_deals,
\* total_amount and closed_amount are the sums of amount over the sales
\* kept and over the Closed Won among them, and average_deal_size is
\* total_amount / total_deals, here to the three decimals the model keeps,
\* and the int 0 when no sale is kept.
C14_SalesAnalysis ==
    SalesAnalysisRan =>
        LET region == DictGet(call.arguments, Str("region"), PyNone)
        IN  SalesAnalysisIs(SalesIn(region \notin {PyNone, EmptyStr}, region))

\* Europe asked for, over a sale won in Europe and a sale lost in Asia
C14_Witness ==
    /\ SalesAnalysisRan
    /\ call.arguments = RegionArg("Europe")
    /\ disk["sales.json"] = FileJson(PyList(<<SaleWon, SaleLost>>))
    /\ Item(call.outcome[2], Str("total_deals")) = PyInt(1)
    /\ Item(call.outcome[2], Str("total_amount")) = PyInt(1000)
    /\ Item(call.outcome[2], Str("closed_amount")) = PyInt(1000)
    /\ Item(call.outcome[2], Str("average_deal_size")) = PyFloat(1000 * FloatScale)

(***************************************************************************)
(* The catalogue against the if/elif chain, under SpecTools.               *)
(***************************************************************************)
\* the names of the descriptors get_available_tools returns, in order
CatalogueNames ==
    [i \in 1..Len(get_available_tools[2]) |->
        Item(get_available_tools[2][i], Str("name"))]

\* what the else branch of handle_tool_call returns for a name
UnknownTool(tool_name) ==
    Return(ErrorDict(<<"Unknown tool: ">> \o PyFormat(tool_name)))

\* C16: get_available_tools returns five descriptors, named
\* get_revenue_summary, get_top_performers, get_open_tickets,
\* analyze_sales_performance and get_business_overview in this order; a call
\* of handle_tool_call with one of these names takes a branch of the if/elif
\* chain and does not return "Unknown tool", and a call with any other name
\* takes no branch and returns "Unknown tool: <name>".
C16_CatalogueIsDispatchTable ==
    /\ CatalogueNames = <<Str("get_revenue_summary"), Str("get_top_performers"),
                          Str("get_open_tickets"), Str("analyze_sales_performance"),
                          Str("get_business_overview")>>
    /\ Called =>
         /\ call.tool_name \in Range(CatalogueNames) =>
               /\ call.tried # UnknownTool(call.tool_name)
               /\ call.outcome # UnknownTool(call.tool_name)
         /\ call.tool_name \notin Range(CatalogueNames) =>
               /\ call.tried = UnknownTool(call.tool_name)
               /\ call.outcome = UnknownTool(call.tool_name)

\* the last name of the catalogue was called and its executor returned the
\* overview of complete data
C16_Witness ==
    /\ Called
    /\ call.tool_name = CatalogueNames[Len(CatalogueNames)]
    /\ call.tool_name = Str("get_business_overview")
    /\ Returned(call.outcome)
    /\ HasKey(call.outcome[2], Str("summary"))
    /\ ~HasKey(call.outcome[2], Str("error"))

====
